---- MODULE Spec2Model ----
(***************************************************************************)
(* Model of src/Bank.py: the Account ledger (deposit, withdraw, interest,  *)
(* loans, transfers, per-account transaction log) and the BankSystem       *)
(* registry with its two menu loops (run / access_account).                *)
(*                                                                         *)
(* Money is held in fixed point: one currency unit is Unit ticks, where    *)
(* Unit = INTEREST_RATE_INV ^ MaxInterest, so that balance * 0.05 is the   *)
(* exact quotient balance / 20 for MaxInterest successive applications.    *)
(* The arithmetic is that of the reals; binary rounding of Python floats   *)
(* is outside the model.  The "time" field of a transaction record and the *)
(* holder's name are never read by any operation and are left out.         *)
(*                                                                         *)
(* Every Account method is an operator from the heap (the registry's       *)
(* objects) and the call's arguments to the heap after the call and the    *)
(* kind of message the call printed.                                       *)
(***************************************************************************)
EXTENDS Integers, Sequences, FiniteSets, TLC

\* ---------------------------------------------------------------- bounds
NumIds      == 2   \* size of the identifier space uuid4()[:8] draws from
MaxRecords  == 4   \* transaction records explored, over all accounts
MaxInterest == 1   \* successive interest applications kept exact

\* INTEREST_RATE = 0.05 = 1 / INTEREST_RATE_INV
INTEREST_RATE_INV == 20

RECURSIVE Pow(_, _)
Pow(b, e) == IF e = 0 THEN 1 ELSE b * Pow(b, e - 1)

Unit == Pow(INTEREST_RATE_INV, MaxInterest)

\* the values str(uuid.uuid4())[:8] can take
IDs == 1 .. NumIds

\* the values float(input(...)) yields at the prompts of the account menu:
\* negative, zero, and two positive ones
Amounts == {0 - Unit, 0, Unit, 2 * Unit}

\* the values float(input("Enter initial deposit amount: ")) yields
InitialBalances == {0 - Unit, 0, Unit}

\* BankSystem.accounts: dict account_number -> Account.  It is the whole state
\* of the program: what a call printed is the msg field of the call's result.
VARIABLE accounts

vars == <<accounts>>

\* the keys of the dict
Registered == DOMAIN accounts

\* ------------------------------------------------------- class Account

\* Account.log_transaction, on the account stored under id in heap h
log_transaction(h, id, type, amount) ==
    [h EXCEPT ![id].transactions =
        Append(@, [type |-> type, amount |-> amount, balance |-> h[id].balance])]

\* Account.__init__: the object before it is stored in the registry
NewAccount(initial_balance) ==
    LET blank == [balance |-> initial_balance, loan_balance |-> 0,
                  transactions |-> <<>>]
        h     == log_transaction([i \in {0} |-> blank], 0,
                                 "Account Created", initial_balance)
    IN  h[0]

\* deposit with the test amount < 0 for amount <= 0
deposit_zero_ok(h, id, amount) ==
    IF amount < 0
    THEN [accounts |-> h, msg |-> "invalid"]
    ELSE LET h1 == [h EXCEPT ![id].balance = @ + amount]
         IN  [accounts |-> log_transaction(h1, id, "Deposit", amount),
              msg |-> "ok"]

\* Account.deposit
deposit(h, id, amount) ==
    IF amount <= 0
    THEN [accounts |-> h, msg |-> "invalid"]
    ELSE LET h1 == [h EXCEPT ![id].balance = @ + amount]
         IN  [accounts |-> log_transaction(h1, id, "Deposit", amount),
              msg |-> "ok"]

\* withdraw without the test amount > self.balance
withdraw_no_funds_check(h, id, amount) ==
    IF amount <= 0
    THEN [accounts |-> h, msg |-> "invalid"]
    ELSE LET h1 == [h EXCEPT ![id].balance = @ - amount]
         IN  [accounts |-> log_transaction(h1, id, "Withdraw", amount),
              msg |-> "ok"]

\* Account.withdraw
withdraw(h, id, amount) ==
    IF amount <= 0
    THEN [accounts |-> h, msg |-> "invalid"]
    ELSE IF amount > h[id].balance
    THEN [accounts |-> h, msg |-> "insufficient"]
    ELSE LET h1 == [h EXCEPT ![id].balance = @ - amount]
         IN  [accounts |-> log_transaction(h1, id, "Withdraw", amount),
              msg |-> "ok"]

\* Account.apply_interest; the quotient is exact where ApplyInterest allows it
apply_interest(h, id) ==
    LET interest == h[id].balance \div INTEREST_RATE_INV
        h1       == [h EXCEPT ![id].balance = @ + interest]
    IN  [accounts |-> log_transaction(h1, id, "Interest Added", interest),
         msg |-> "ok"]

\* Account.take_loan
take_loan(h, id, amount) ==
    IF amount <= 0
    THEN [accounts |-> h, msg |-> "invalid"]
    ELSE LET h1 == [h EXCEPT ![id].loan_balance = @ + amount]
             h2 == [h1 EXCEPT ![id].balance = @ + amount]
         IN  [accounts |-> log_transaction(h2, id, "Loan Taken", amount),
              msg |-> "ok"]

\* repay_loan without the cap: amount stays what was asked for
repay_loan_no_cap(h, id, amount) ==
    IF amount <= 0
    THEN [accounts |-> h, msg |-> "invalid"]
    ELSE LET h1 == [h EXCEPT ![id].loan_balance = @ - amount]
             h2 == [h1 EXCEPT ![id].balance = @ - amount]
         IN  [accounts |-> log_transaction(h2, id, "Loan Repaid", 0 - amount),
              msg |-> "ok"]

\* repay_loan that caps what it takes off the loan, not what it takes off
\* the balance
repay_loan_full_debit(h, id, amount) ==
    IF amount <= 0
    THEN [accounts |-> h, msg |-> "invalid"]
    ELSE LET capped == IF amount > h[id].loan_balance
                       THEN h[id].loan_balance ELSE amount
             h1 == [h EXCEPT ![id].loan_balance = @ - capped]
             h2 == [h1 EXCEPT ![id].balance = @ - amount]
         IN  [accounts |-> log_transaction(h2, id, "Loan Repaid", 0 - capped),
              msg |-> IF amount > h[id].loan_balance THEN "capped" ELSE "ok"]

\* Account.repay_loan
repay_loan(h, id, amount) ==
    IF amount <= 0
    THEN [accounts |-> h, msg |-> "invalid"]
    ELSE LET capped == IF amount > h[id].loan_balance
                       THEN h[id].loan_balance ELSE amount
             h1 == [h EXCEPT ![id].loan_balance = @ - capped]
             h2 == [h1 EXCEPT ![id].balance = @ - capped]
         IN  [accounts |-> log_transaction(h2, id, "Loan Repaid", 0 - capped),
              msg |-> IF amount > h[id].loan_balance THEN "capped" ELSE "ok"]

\* transfer without the test amount > self.balance
transfer_no_funds_check(h, id, rcpt, amount) ==
    IF amount <= 0
    THEN [accounts |-> h, msg |-> "invalid"]
    ELSE LET h1 == [h EXCEPT ![id].balance = @ - amount]
             h2 == [h1 EXCEPT ![rcpt].balance = @ + amount]
             h3 == log_transaction(h2, id, "Transfer Out", 0 - amount)
             h4 == log_transaction(h3, rcpt, "Transfer In", amount)
         IN  [accounts |-> h4, msg |-> "ok"]

\* transfer that logs both records before it credits the recipient
transfer_log_first(h, id, rcpt, amount) ==
    IF amount <= 0
    THEN [accounts |-> h, msg |-> "invalid"]
    ELSE IF amount > h[id].balance
    THEN [accounts |-> h, msg |-> "insufficient"]
    ELSE LET h1 == [h EXCEPT ![id].balance = @ - amount]
             h2 == log_transaction(h1, id, "Transfer Out", 0 - amount)
             h3 == log_transaction(h2, rcpt, "Transfer In", amount)
             h4 == [h3 EXCEPT ![rcpt].balance = @ + amount]
         IN  [accounts |-> h4, msg |-> "ok"]

\* transfer that never credits the recipient
transfer_no_credit(h, id, rcpt, amount) ==
    IF amount <= 0
    THEN [accounts |-> h, msg |-> "invalid"]
    ELSE IF amount > h[id].balance
    THEN [accounts |-> h, msg |-> "insufficient"]
    ELSE LET h1 == [h EXCEPT ![id].balance = @ - amount]
             h3 == log_transaction(h1, id, "Transfer Out", 0 - amount)
             h4 == log_transaction(h3, rcpt, "Transfer In", amount)
         IN  [accounts |-> h4, msg |-> "ok"]

\* Account.transfer; self is the object under id, recipient the one under rcpt.
\* The four statements run in the code's order on the shared heap, so that
\* self and recipient may be one and the same object.
transfer(h, id, rcpt, amount) ==
    IF amount <= 0
    THEN [accounts |-> h, msg |-> "invalid"]
    ELSE IF amount > h[id].balance
    THEN [accounts |-> h, msg |-> "insufficient"]
    ELSE LET h1 == [h EXCEPT ![id].balance = @ - amount]
             h2 == [h1 EXCEPT ![rcpt].balance = @ + amount]
             h3 == log_transaction(h2, id, "Transfer Out", 0 - amount)
             h4 == log_transaction(h3, rcpt, "Transfer In", amount)
         IN  [accounts |-> h4, msg |-> "ok"]

\* ---------------------------------------------------- class BankSystem

\* self.accounts[account.account_number] = account
Store(h, id, account) ==
    [i \in DOMAIN h \cup {id} |-> IF i = id THEN account ELSE h[i]]

RECURSIVE Records(_, _)
Records(h, ids) ==
    IF ids = {} THEN 0
    ELSE LET i == CHOOSE x \in ids : TRUE
         IN  Len(h[i].transactions) + Records(h, ids \ {i})

\* exploration bound: the registry holds at most MaxRecords records in all
Fits(h) == Records(h, DOMAIN h) <= MaxRecords

\* BankSystem.__init__
Init == accounts = [i \in {} |-> 0]

\* BankSystem.create_account; the identifier is whatever uuid4()[:8] returns
CreateAccountA(id, initial_balance) ==
    LET h2 == Store(accounts, id, NewAccount(initial_balance))
    IN  /\ Fits(h2)
        /\ accounts' = h2

CreateAccount == \E id \in IDs, initial_balance \in InitialBalances :
                    CreateAccountA(id, initial_balance)

\* The menu loop of access_account works on the object self.accounts.get
\* returned for acc_number.  create_account cannot run while the loop does,
\* so that object is the one the registry holds under acc_number for the
\* whole session, and a session is any sequence of the choices below on one
\* registered acc_number.
Apply(r) ==
    LET h2 == r.accounts
    IN  /\ Fits(h2)
        /\ accounts' = h2

\* choice '1'
DepositA(acc_number, amount) == Apply(deposit(accounts, acc_number, amount))

Deposit == \E acc_number \in Registered, amount \in Amounts :
              DepositA(acc_number, amount)

\* choice '2'
WithdrawA(acc_number, amount) == Apply(withdraw(accounts, acc_number, amount))

Withdraw == \E acc_number \in Registered, amount \in Amounts :
               WithdrawA(acc_number, amount)

\* choice '5'; explored where the interest is a whole number of ticks
ApplyInterestA(acc_number) ==
    /\ accounts[acc_number].balance % INTEREST_RATE_INV = 0
    /\ Apply(apply_interest(accounts, acc_number))

ApplyInterest == \E acc_number \in Registered : ApplyInterestA(acc_number)

\* choice '6'
TakeLoanA(acc_number, amount) == Apply(take_loan(accounts, acc_number, amount))

TakeLoan == \E acc_number \in Registered, amount \in Amounts :
               TakeLoanA(acc_number, amount)

\* choice '7'
RepayLoanA(acc_number, amount) == Apply(repay_loan(accounts, acc_number, amount))

RepayLoan == \E acc_number \in Registered, amount \in Amounts :
                RepayLoanA(acc_number, amount)

\* choice '8': the recipient is looked up in the registry; the sender's own
\* number resolves like any other
TransferA(acc_number, recipient_number, amount) ==
    IF recipient_number \notin Registered
    THEN UNCHANGED accounts
    ELSE Apply(transfer(accounts, acc_number, recipient_number, amount))

Transfer == \E acc_number \in Registered, recipient_number \in IDs,
               amount \in Amounts :
               TransferA(acc_number, recipient_number, amount)

Next ==
    \/ CreateAccount
    \/ Deposit
    \/ Withdraw
    \/ ApplyInterest
    \/ TakeLoan
    \/ RepayLoan
    \/ Transfer

Spec == Init /\ [][Next]_vars

\* ------------------------------------------------------------- claims

Last(seq) == seq[Len(seq)]

Balance(h, id) == h[id].balance

Loan(h, id) == h[id].loan_balance

Log(h, id) == h[id].transactions

RECURSIVE SumAmounts(_)
SumAmounts(seq) ==
    IF seq = <<>> THEN 0 ELSE Head(seq).amount + SumAmounts(Tail(seq))

RECURSIVE Total(_, _)
Total(h, ids) ==
    IF ids = {} THEN 0
    ELSE LET i == CHOOSE x \in ids : TRUE
         IN  h[i].balance + Total(h, ids \ {i})

\* what a rejected call returns: the heap as it was, and the message
Rejected(r, h, why) == r.accounts = h /\ r.msg = why

\* the records of id in h2 are those in h1 followed by n more, each of which
\* stores the balance id has in h2
Appended(h1, h2, id, n) ==
    /\ Len(Log(h2, id)) = Len(Log(h1, id)) + n
    /\ SubSeq(Log(h2, id), 1, Len(Log(h1, id))) = Log(h1, id)
    /\ \A k \in Len(Log(h1, id)) + 1 .. Len(Log(h2, id)) :
          Log(h2, id)[k].balance = Balance(h2, id)

\* C1: every account's balance is its initial balance (the amount of its
\* Account Created record) plus the signed amounts of the records after it.
CE_C1 ==
    \A id \in Registered :
       Balance(accounts, id)
          = Log(accounts, id)[1].amount + SumAmounts(Tail(Log(accounts, id)))

\* C2, as stated: for every sender s and every recipient r the registry
\* resolves, r = s included, a successful transfer lowers s's balance by
\* amount, raises r's by amount and adds exactly one record to the history
\* of s and one to that of r; with amount > s's balance nothing changes.
CE_C2 ==
    [][\A s \in Registered, r \in Registered, amount \in Amounts :
          TransferA(s, r, amount) =>
             /\ transfer(accounts, s, r, amount).msg = "ok" =>
                   /\ Balance(accounts', s) = Balance(accounts, s) - amount
                   /\ Balance(accounts', r) = Balance(accounts, r) + amount
                   /\ Len(Log(accounts', s)) = Len(Log(accounts, s)) + 1
                   /\ Len(Log(accounts', r)) = Len(Log(accounts, r)) + 1
             /\ amount > Balance(accounts, s) => accounts' = accounts]_vars

\* C2, amended: in every reachable state, for every sender s, every
\* recipient r the registry resolves and every amount, transfer succeeds
\* exactly when 0 < amount <= s's balance.  A successful transfer to another
\* account lowers s's balance by amount, raises r's by amount and appends
\* exactly one record to each of the two histories (Transfer Out with
\* -amount, Transfer In with amount); a successful transfer to the sender's
\* own number leaves its balance as it was and appends both records to its
\* one history.  With amount > s's balance no account changes at all.
Th_C2 ==
    \A s \in Registered, r \in Registered, amount \in Amounts :
       LET res == transfer(accounts, s, r, amount)
           h2  == res.accounts
       IN  /\ res.msg = "ok" <=> (amount > 0 /\ amount <= Balance(accounts, s))
           /\ (res.msg = "ok" /\ s # r) =>
                 /\ Balance(h2, s) = Balance(accounts, s) - amount
                 /\ Balance(h2, r) = Balance(accounts, r) + amount
                 /\ Appended(accounts, h2, s, 1)
                 /\ Appended(accounts, h2, r, 1)
                 /\ Last(Log(h2, s)).type = "Transfer Out"
                 /\ Last(Log(h2, s)).amount = 0 - amount
                 /\ Last(Log(h2, r)).type = "Transfer In"
                 /\ Last(Log(h2, r)).amount = amount
           /\ (res.msg = "ok" /\ s = r) =>
                 /\ Balance(h2, s) = Balance(accounts, s)
                 /\ Appended(accounts, h2, s, 2)
                 /\ Log(h2, s)[Len(Log(h2, s)) - 1].type = "Transfer Out"
                 /\ Last(Log(h2, s)).type = "Transfer In"
           /\ amount > Balance(accounts, s) => h2 = accounts

\* a transfer between two different accounts has happened
W_C2 ==
    \E s \in Registered, r \in Registered :
       /\ s # r
       /\ Last(Log(accounts, s)).type = "Transfer Out"
       /\ Last(Log(accounts, r)).type = "Transfer In"
       /\ Last(Log(accounts, r)).amount = 0 - Last(Log(accounts, s)).amount

\* C3, as stated, for the accounts opened with a balance >= 0: whenever
\* amount > balance, withdraw and transfer are rejected as insufficient funds
\* and change nothing; a call that succeeds from a balance >= 0 leaves a
\* balance >= 0.
CE_C3 ==
    \A id \in Registered, amount \in Amounts :
       Log(accounts, id)[1].amount >= 0 =>
          /\ amount > Balance(accounts, id) =>
                /\ Rejected(withdraw(accounts, id, amount), accounts, "insufficient")
                /\ \A r \in Registered :
                      Rejected(transfer(accounts, id, r, amount), accounts,
                               "insufficient")
          /\ Balance(accounts, id) >= 0 =>
                /\ Balance(withdraw(accounts, id, amount).accounts, id) >= 0
                /\ \A r \in Registered :
                      Balance(transfer(accounts, id, r, amount).accounts, id) >= 0

\* C3, amended: whenever amount > balance, withdraw and transfer are
\* rejected and change nothing: as insufficient funds when amount > 0, as an
\* invalid amount when amount <= 0 (which a negative balance allows).  No
\* call lowers the caller's balance to a value below zero, and a call that
\* succeeds from a balance >= 0 leaves a balance >= 0.
Th_C3 ==
    \A id \in Registered, amount \in Amounts :
       LET why == IF amount > 0 THEN "insufficient" ELSE "invalid"
           ok(res) ==
              LET h2 == res.accounts
              IN  /\ amount > Balance(accounts, id) => Rejected(res, accounts, why)
                  /\ Balance(h2, id) >= 0 \/ h2 = accounts
                  /\ Balance(accounts, id) >= 0 => Balance(h2, id) >= 0
       IN  /\ ok(withdraw(accounts, id, amount))
           /\ \A r \in Registered : ok(transfer(accounts, id, r, amount))

\* an account has withdrawn, and an amount it may be asked for next exceeds
\* what it has left; another account is there to be named as recipient
W_C3 ==
    \E id \in Registered, r \in Registered, amount \in Amounts :
       /\ r # id
       /\ Last(Log(accounts, id)).type = "Withdraw"
       /\ amount > 0
       /\ amount > Balance(accounts, id)

\* C4: deposit, withdraw, take_loan, repay_loan and transfer called with
\* amount <= 0 are rejected as an invalid amount and change nothing: every
\* account's balance, loan_balance and history are as before the call.
Th_C4 ==
    \A id \in Registered, amount \in Amounts :
       amount <= 0 =>
          /\ Rejected(deposit(accounts, id, amount), accounts, "invalid")
          /\ Rejected(withdraw(accounts, id, amount), accounts, "invalid")
          /\ Rejected(take_loan(accounts, id, amount), accounts, "invalid")
          /\ Rejected(repay_loan(accounts, id, amount), accounts, "invalid")
          /\ \A r \in Registered :
                Rejected(transfer(accounts, id, r, amount), accounts, "invalid")

\* two accounts with money, a loan and a history are there to be called with
\* a zero and with a negative amount
W_C4 ==
    /\ \E amount \in Amounts : amount < 0
    /\ 0 \in Amounts
    /\ \E id \in Registered, r \in Registered :
          /\ id # r
          /\ Balance(accounts, id) > 0
          /\ Loan(accounts, id) > 0
          /\ Len(Log(accounts, id)) > 1

\* C5: repay_loan(amount) with amount > loan_balance, a loan_balance of 0
\* included, is not rejected: afterwards loan_balance = 0, the balance is
\* lower by exactly the loan_balance held before the call, and the one
\* record appended is a Loan Repaid record with minus that loan_balance as
\* its amount.
Th_C5 ==
    \A id \in Registered, amount \in Amounts :
       amount > Loan(accounts, id) =>
          LET res == repay_loan(accounts, id, amount)
              h2  == res.accounts
          IN  /\ res.msg \notin {"invalid", "insufficient"}
              /\ Loan(h2, id) = 0
              /\ Balance(h2, id) = Balance(accounts, id) - Loan(accounts, id)
              /\ Appended(accounts, h2, id, 1)
              /\ Last(Log(h2, id)).type = "Loan Repaid"
              /\ Last(Log(h2, id)).amount = 0 - Loan(accounts, id)
              /\ \A j \in Registered \ {id} : h2[j] = accounts[j]

\* a repayment was capped: one to nothing on an account that owed nothing,
\* or one that cleared a loan smaller than the largest amount on offer
W_C5 ==
    \E id \in Registered :
       /\ Last(Log(accounts, id)).type = "Loan Repaid"
       /\ Loan(accounts, id) = 0
       /\ \E amount \in Amounts : amount > 0 - Last(Log(accounts, id)).amount

\* the call with result res appended one record to id, or none if it was
\* rejected and changed nothing, and left every other account as it was
OneRecord(res, id) ==
    LET h2  == res.accounts
        rej == res.msg \in {"invalid", "insufficient"}
    IN  /\ Appended(accounts, h2, id, IF rej THEN 0 ELSE 1)
        /\ rej => h2 = accounts
        /\ \A j \in Registered \ {id} : h2[j] = accounts[j]

\* C6: the record account creation logs, and every record deposit,
\* withdraw, apply_interest, take_loan and repay_loan append, is exactly one
\* record on the account called; a transfer appends one record for the
\* sender and one for the recipient (both to the one history when the two
\* are the same account) and none elsewhere; a rejected call appends none.
\* Every appended record stores the balance its account has after the call,
\* so the last record of every history holds the account's current balance.
Th_C6 ==
    /\ \A id \in Registered :
          /\ Len(Log(accounts, id)) >= 1
          /\ Last(Log(accounts, id)).balance = Balance(accounts, id)
    /\ \A b \in InitialBalances :
          /\ Len(NewAccount(b).transactions) = 1
          /\ NewAccount(b).transactions[1].balance = NewAccount(b).balance
    /\ \A id \in Registered, amount \in Amounts :
          /\ OneRecord(deposit(accounts, id, amount), id)
          /\ OneRecord(withdraw(accounts, id, amount), id)
          /\ OneRecord(apply_interest(accounts, id), id)
          /\ OneRecord(take_loan(accounts, id, amount), id)
          /\ OneRecord(repay_loan(accounts, id, amount), id)
          /\ \A r \in Registered :
                LET res == transfer(accounts, id, r, amount)
                    h2  == res.accounts
                    n   == IF res.msg # "ok" THEN 0 ELSE 1
                IN  /\ Appended(accounts, h2, id, IF r = id THEN 2 * n ELSE n)
                    /\ Appended(accounts, h2, r, IF r = id THEN 2 * n ELSE n)
                    /\ \A j \in Registered \ {id, r} : h2[j] = accounts[j]

\* an account received a transfer from another one, and its last record
\* holds a balance other than the one it was created with
W_C6 ==
    \E id \in Registered :
       /\ Len(Log(accounts, id)) = 2
       /\ Last(Log(accounts, id)).type = "Transfer In"
       /\ Last(Log(accounts, id)).balance # Log(accounts, id)[1].balance
       /\ Last(Log(accounts, id)).balance = Balance(accounts, id)

\* C7: every account's loan_balance is >= 0 in every reachable state;
\* take_loan never lowers it and repay_loan lowers it by no more than its
\* current value.
Th_C7 ==
    \A id \in Registered :
       /\ Loan(accounts, id) >= 0
       /\ \A amount \in Amounts :
             /\ Loan(take_loan(accounts, id, amount).accounts, id)
                   >= Loan(accounts, id)
             /\ Loan(repay_loan(accounts, id, amount).accounts, id)
                   <= Loan(accounts, id)
             /\ Loan(repay_loan(accounts, id, amount).accounts, id) >= 0

\* part of a loan was repaid and part of it is still owed
W_C7 ==
    \E id \in Registered :
       /\ Last(Log(accounts, id)).type = "Loan Repaid"
       /\ Last(Log(accounts, id)).amount < 0
       /\ Loan(accounts, id) > 0

\* C8: create_account rejects a negative initial balance, so no registered
\* account's history begins with a negative balance.
CE_C8 ==
    \A id \in Registered :
       /\ Log(accounts, id)[1].type = "Account Created"
       /\ Log(accounts, id)[1].balance >= 0

\* C9: every creation adds exactly one account to the registry under an
\* identifier no registered account has, and leaves every account registered
\* before it registered and as it was.
CE_C9 ==
    [][\A id \in IDs, initial_balance \in InitialBalances :
          CreateAccountA(id, initial_balance) =>
             /\ id \notin Registered
             /\ Cardinality(DOMAIN accounts') = Cardinality(Registered) + 1
             /\ \A j \in Registered :
                   /\ j \in DOMAIN accounts'
                   /\ accounts'[j] = accounts[j]]_vars

\* C10: a transfer, successful or rejected, between any sender and any
\* recipient of the registry (the sender itself included) leaves the sum of
\* the balances of all registered accounts, every account's loan_balance and
\* the set of registered accounts as they were.
Th_C10 ==
    \A s \in Registered, r \in Registered, amount \in Amounts :
       LET h2 == transfer(accounts, s, r, amount).accounts
       IN  /\ DOMAIN h2 = Registered
           /\ Total(h2, Registered) = Total(accounts, Registered)
           /\ \A j \in Registered : Loan(h2, j) = Loan(accounts, j)

\* a transfer to the sender's own number has happened, next to another
\* account that took no part in it
W_C10 ==
    \E id \in Registered, j \in Registered :
       /\ j # id
       /\ Len(Log(accounts, id)) >= 3
       /\ Log(accounts, id)[Len(Log(accounts, id)) - 1].type = "Transfer Out"
       /\ Last(Log(accounts, id)).type = "Transfer In"

====
